---- MODULE Spec2Model ----
(***************************************************************************)
(* ToolHub (tool availability lookup): the fuzzy matcher and the bulk-scan *)
(* classifier of ai_scanner.py as operators, and the inventory upload and  *)
(* bulk-scan request handlers of app.py as state machines over the SQLite  *)
(* tables of database.py and the files of storage.py / export_results.py.  *)
(*                                                                         *)
(* Conventions.                                                            *)
(*  - A Python str is a sequence of one-character strings.  A blank sheet  *)
(*    cell is NaN (a float, not a str), as pandas.read_excel yields it.    *)
(*  - A similarity score is an exact rational <<num, den>>, den > 0.       *)
(*  - A dataframe is <<columns, rows>>: the sequence of column names and  *)
(*    the sequence of rows, each the sequence of its cells.                *)
(*  - A handler is cut into steps at its accesses to the database and to   *)
(*    the folders; two accesses are one step where no other request's step *)
(*    between them could be told from the same step before or after both.  *)
(*  - Uploaded files arrive under names of their own, so the temporary     *)
(*    copies in UPLOAD_FOLDER do not collide; the audit log is left out.   *)
(*                                                                         *)
(* Specifications.                                                         *)
(*  - SpecMatch: one call of run_scan, lookup_tool or lookup_suggestions   *)
(*    on a loaded snapshot.                                                *)
(*  - SpecStore: two threads serving infosec_upload on a fresh ledger.     *)
(*  - SpecScan: two threads serving scan_upload, with scan_results,        *)
(*    scan_download and the removal of result files, on a data directory   *)
(*    that holds uploaded inventories.                                     *)
(*  - SpecCache: save_scan_cache and get_cached_scan called with any hash  *)
(*    and result paths.                                                    *)
(*  - SpecScore: _score_query_against_name called with any query, name and *)
(*    vendor.                                                              *)
(*  - SpecFresh: one thread serving infosec_upload next to the scan        *)
(*    threads, from a fresh data directory.                                *)
(***************************************************************************)
EXTENDS Integers, Sequences, FiniteSets, TLC

(***************************************************************************)
(* Values and Python helpers                                               *)
(***************************************************************************)

\* float('nan'): what read_excel gives for a blank cell.  Not a str.
NaN == <<"NaN">>

\* isinstance(v, str)
IsStr(v) == v # NaN /\ v # <<"None">>

\* None, what dict.get gives for a missing key.
None == <<"None">>

\* bool(v): the empty str and None are falsy, NaN (a non-zero float) is truthy.
Truthy(v) == v # <<>> /\ v # None

\* (v or "")
OrEmpty(v) == IF Truthy(v) THEN v ELSE <<>>

\* str(v): str(float('nan')) is "nan".
Str(v) == IF v = NaN THEN <<"n", "a", "n">> ELSE v

\* A dict built from a dataframe row: Series.to_dict().
ToDict(columns, cells) ==
    [c \in {columns[i] : i \in 1..Len(columns)} |->
        cells[CHOOSE i \in 1..Len(columns) : columns[i] = c]]

\* d.get(k)
Get(d, k) == IF k \in DOMAIN d THEN d[k] ELSE None

\* pd.isna(v)
IsNa(v) == v = NaN

Max2(a, b) == IF a >= b THEN a ELSE b

\* Body applied to the value of e.  (TLC evaluates an operator's argument
\* wherever the parameter occurs; a bound variable holds a value.)
Let1(e, Body(_)) == CHOOSE r \in {Body(v) : v \in {e}} : TRUE

\* c.lower() for one character
LowerChar(c) == CASE c = "A" -> "a" [] c = "N" -> "n" [] c = "S" -> "s" [] OTHER -> c

\* s.lower()
Lower(s) == [i \in 1..Len(s) |-> LowerChar(s[i])]

\* c.isspace()
IsSpace(c) == c = " "

\* s.split(): the maximal runs of non-whitespace characters, in order.
RECURSIVE SplitFrom(_, _, _)
SplitFrom(s, i, cur) ==
    IF i > Len(s) THEN (IF cur = <<>> THEN <<>> ELSE <<cur>>)
    ELSE IF IsSpace(s[i])
         THEN (IF cur = <<>> THEN <<>> ELSE <<cur>>) \o SplitFrom(s, i + 1, <<>>)
         ELSE SplitFrom(s, i + 1, Append(cur, s[i]))

Split(s) == SplitFrom(s, 1, <<>>)

\* " ".join(tokens)
RECURSIVE Join(_)
Join(tokens) ==
    IF tokens = <<>> THEN <<>>
    ELSE IF Len(tokens) = 1 THEN tokens[1]
    ELSE tokens[1] \o <<" ">> \o Join(Tail(tokens))

\* s.strip(): leading and trailing whitespace removed.
RECURSIVE LStrip(_)
LStrip(s) == IF s # <<>> /\ IsSpace(Head(s)) THEN LStrip(Tail(s)) ELSE s

RECURSIVE RStrip(_)
RStrip(s) ==
    IF s # <<>> /\ IsSpace(s[Len(s)]) THEN RStrip(SubSeq(s, 1, Len(s) - 1)) ELSE s

Strip(s) == RStrip(LStrip(s))

(***************************************************************************)
(* Rationals                                                               *)
(***************************************************************************)

Rat(n, d) == <<n, d>>

RGe(x, y) == x[1] * y[2] >= y[1] * x[2]

RGt(x, y) == x[1] * y[2] > y[1] * x[2]

REq(x, y) == x[1] * y[2] = y[1] * x[2]

RMax(x, y) == IF RGe(x, y) THEN x ELSE y

RMin(x, y) == IF RGe(x, y) THEN y ELSE x

\* x >= k and x < k for an integer k
RGeInt(x, k) == x[1] >= k * x[2]

RLtInt(x, k) == x[1] < k * x[2]

\* The maximum of a non-empty finite set of rationals.
RMaxOf(S) == CHOOSE x \in S : \A y \in S : RGe(x, y)

\* round(x * 10^k) for a rational x >= 0, ties to even (Python's round).
RoundScaled(x, scale) ==
    LET n == x[1] * scale
        q == n \div x[2]
        r == n % x[2]
    IN  IF 2 * r > x[2] THEN q + 1
        ELSE IF 2 * r < x[2] THEN q
        ELSE IF q % 2 = 0 THEN q ELSE q + 1

\* round(x, 1), in tenths: 850 stands for 85.0
Round1(x) == RoundScaled(x, 10)

\* round(x, 0)
Round0(x) == RoundScaled(x, 1)

(***************************************************************************)
(* rapidfuzz.fuzz as ai_scanner.py uses it                                 *)
(***************************************************************************)

\* Length of the longest common subsequence.
RECURSIVE LCS(_, _)
LCS(a, b) ==
    IF a = <<>> \/ b = <<>> THEN 0
    ELSE IF Head(a) = Head(b) THEN 1 + LCS(Tail(a), Tail(b))
    ELSE Max2(LCS(Tail(a), b), LCS(a, Tail(b)))

\* Indel distance: insertions and deletions turning a into b.
IndelDistance(a, b) == Len(a) + Len(b) - 2 * LCS(a, b)

\* 100 - 100 * dist / lensum, and 100 when lensum is 0.
NormDistance(dist, lensum) ==
    IF lensum = 0 THEN Rat(100, 1) ELSE Rat(100 * (lensum - dist), lensum)

\* fuzz.ratio(a, b): the normalized Indel similarity, 0..100.
Ratio(a, b) == NormDistance(IndelDistance(a, b), Len(a) + Len(b))

CharSet(s) == {s[i] : i \in 1..Len(s)}

\* The alignments of the shorter string s1 that partial_ratio tries in s2:
\* the prefixes shorter than s1, the windows as long as s1 and the suffixes
\* no longer than s1, each tried only if its outer character occurs in s1.
PartialWindows(s1, s2) ==
    LET len1 == Len(s1)
        len2 == Len(s2)
        cs   == CharSet(s1)
    IN  {SubSeq(s2, 1, i) : i \in {j \in 1..(len1 - 1) : s2[j] \in cs}}
        \cup {SubSeq(s2, i + 1, i + len1) :
                i \in {j \in 0..(len2 - len1 - 1) : len1 > 0 /\ s2[j + len1] \in cs}}
        \cup {SubSeq(s2, i + 1, len2) :
                i \in {j \in (len2 - len1)..(len2 - 1) : s2[j + 1] \in cs}}

\* _partial_ratio_impl(s1, s2), for len(s1) <= len(s2)
PartialRatioImpl(s1, s2) ==
    LET scores == {Ratio(s1, w) : w \in PartialWindows(s1, s2)}
    IN  IF scores = {} THEN Rat(0, 1) ELSE RMaxOf(scores)

\* fuzz.partial_ratio(a, b)
PartialRatio(a, b) ==
    IF a = <<>> /\ b = <<>> THEN Rat(100, 1)
    ELSE LET shorter == IF Len(a) <= Len(b) THEN a ELSE b
             longer  == IF Len(a) <= Len(b) THEN b ELSE a
         IN  Let1(PartialRatioImpl(shorter, longer), LAMBDA res :
                IF ~REq(res, Rat(100, 1)) /\ Len(a) = Len(b)
                THEN RMaxOf({res, PartialRatioImpl(longer, shorter)})
                ELSE res)

\* Code point order of the characters in use.
CharOrd(c) ==
    CASE c = " " -> 32 [] c = "A" -> 65 [] c = "N" -> 78 [] c = "S" -> 83
      [] c = "a" -> 97 [] c = "n" -> 110 [] c = "s" -> 115 [] OTHER -> 122

\* a < b for str
RECURSIVE StrLt(_, _)
StrLt(a, b) ==
    IF b = <<>> THEN FALSE
    ELSE IF a = <<>> THEN TRUE
    ELSE IF Head(a) = Head(b) THEN StrLt(Tail(a), Tail(b))
    ELSE CharOrd(Head(a)) < CharOrd(Head(b))

\* sorted(S) for a set of str
RECURSIVE Sorted(_)
Sorted(S) ==
    IF S = {} THEN <<>>
    ELSE LET m == CHOOSE x \in S : \A y \in S \ {x} : StrLt(x, y)
         IN  <<m>> \o Sorted(S \ {m})

SeqToSet(s) == {s[i] : i \in 1..Len(s)}

\* fuzz.token_set_ratio(a, b)
TokenSetRatio(a, b) ==
    LET tokens_a  == SeqToSet(Split(a))
        tokens_b  == SeqToSet(Split(b))
        intersect == tokens_a \cap tokens_b
        diff_ab   == tokens_a \ tokens_b
        diff_ba   == tokens_b \ tokens_a
        ab        == Join(Sorted(diff_ab))
        ba        == Join(Sorted(diff_ba))
        sect_len  == Len(Join(Sorted(intersect)))
        sep       == IF sect_len # 0 THEN 1 ELSE 0
        sect_ab_len == sect_len + sep + Len(ab)
        sect_ba_len == sect_len + sep + Len(ba)
        result    == NormDistance(IndelDistance(ab, ba), sect_ab_len + sect_ba_len)
        sect_ab_ratio == NormDistance(sep + Len(ab), sect_len + sect_ab_len)
        sect_ba_ratio == NormDistance(sep + Len(ba), sect_len + sect_ba_len)
    IN  IF tokens_a = {} \/ tokens_b = {} THEN Rat(0, 1)
        ELSE IF intersect # {} /\ (diff_ab = {} \/ diff_ba = {}) THEN Rat(100, 1)
        ELSE IF sect_len = 0 THEN result
        ELSE RMaxOf({result, sect_ab_ratio, sect_ba_ratio})

(***************************************************************************)
(* config.py, excel_utils.py                                               *)
(***************************************************************************)

MATCH_THRESHOLD_AVAILABLE == 85

MATCH_THRESHOLD_REVIEW == 60

REQUIRED_COLUMNS == <<"Name", "Vendor Name">>

\* pandas.DataFrame
DF(columns, rows) == <<columns, rows>>

Columns(df) == df[1]

Rows(df) == df[2]

\* str(c).strip() for a column header
StripHeader(c) ==
    CASE c = " Name" -> "Name" [] c = "Name " -> "Name"
      [] c = " Vendor Name" -> "Vendor Name" [] c = "Vendor Name " -> "Vendor Name"
      [] OTHER -> c

\* normalize_columns(df): the headers stripped, the cells untouched.
normalize_columns(df) ==
    DF([i \in 1..Len(Columns(df)) |-> StripHeader(Columns(df)[i])], Rows(df))

\* df.to_dict("records")
ToRecords(df) == [i \in 1..Len(Rows(df)) |-> ToDict(Columns(df), Rows(df)[i])]

(***************************************************************************)
(* ai_scanner.py: the bulk-scan classifier                                 *)
(***************************************************************************)

STATUS_AVAILABLE == "Available"

STATUS_UNAVAILABLE == "Unavailable"

STATUS_REVIEW == "Requires further review"

\* What x.lower() raises for a float x.
AttributeError == <<"AttributeError">>

\* _similarity(tool, vendor, inv_row): (ratio of the names + ratio of the
\* vendors) / 2; .lower() of a non-str raises.
_similarity(tool, vendor, inv_row) ==
    LET a  == OrEmpty(tool)
        b  == OrEmpty(Get(inv_row, "Name"))
        c  == OrEmpty(vendor)
        d  == OrEmpty(Get(inv_row, "Vendor Name"))
    IN  IF ~IsStr(a) \/ ~IsStr(b) \/ ~IsStr(c) \/ ~IsStr(d) THEN AttributeError
        ELSE Let1(<<Ratio(Lower(a), Lower(b)), Ratio(Lower(c), Lower(d))>>, LAMBDA tv :
                LET t == tv[1]
                    v == tv[2]
                IN  Rat(t[1] * v[2] + v[1] * t[2], 2 * t[2] * v[2]))

\* The loop of _best_match over inv_list: best_score starts at 0.0 and is
\* replaced by every s > best_score, so it ends as the largest of 0 and the
\* similarities; the first _similarity that raises ends the loop.
BestScore(tool, vendor, inv_list) ==
    LET scores == {_similarity(tool, vendor, inv_list[i]) : i \in 1..Len(inv_list)}
    IN  Let1(scores, LAMBDA S :
            IF AttributeError \in S THEN AttributeError
            ELSE RMaxOf(S \cup {Rat(0, 1)}))

\* The status of a best score under the two configured thresholds.
StatusOf(best_score) ==
    IF RGeInt(best_score, MATCH_THRESHOLD_AVAILABLE) THEN STATUS_AVAILABLE
    ELSE IF RGeInt(best_score, MATCH_THRESHOLD_REVIEW) THEN STATUS_REVIEW
    ELSE STATUS_UNAVAILABLE

\* row blank for _best_match: neither a tool name nor a vendor
BothFalsy(tool, vendor) == ~Truthy(tool) /\ ~Truthy(vendor)

\* _best_match(row, inventory): <<status, score>>, or AttributeError
_best_match(row, inventory) ==
    LET tool   == OrEmpty(Get(row, "Name"))
        vendor == OrEmpty(Get(row, "Vendor Name"))
    IN  IF BothFalsy(tool, vendor) THEN <<STATUS_REVIEW, Rat(0, 1)>>
        ELSE Let1(BestScore(tool, vendor, ToRecords(inventory)), LAMBDA best_score :
                IF best_score = AttributeError THEN AttributeError
                ELSE <<StatusOf(best_score), best_score>>)

\* "inventory is None or len(inventory) == 0"
\* A variant that takes only a failed load for a missing inventory.
NoInventoryOnlyNone(inventory) == inventory = None

NoInventory(inventory) == inventory = None \/ Len(Rows(inventory)) = 0

\* run_scan(user_df, verified_stored_path), given what load_verified_inventory
\* returned for the path: the dataframe with the two result columns appended
\* to every row ("Match Score %" in tenths), or the exception that escapes.
run_scan(user_df, inventory) ==
    LET columns == Columns(user_df) \o <<"Availability", "Match Score %">>
        n       == Len(Rows(user_df))
    IN  IF NoInventory(inventory)
        THEN DF(columns, [i \in 1..n |-> Rows(user_df)[i] \o <<STATUS_REVIEW, 0>>])
        ELSE LET inv == normalize_columns(inventory)
                 row(i) == ToDict(Columns(user_df), Rows(user_df)[i])
             IN  Let1([i \in 1..n |-> _best_match(row(i), inv)], LAMBDA bm :
                    IF \E i \in 1..n : bm[i] = AttributeError
                    THEN AttributeError
                    ELSE DF(columns, [i \in 1..n |->
                            Rows(user_df)[i] \o <<bm[i][1], Round1(bm[i][2])>>]))

(***************************************************************************)
(* ai_scanner.py: the single tool name lookup                              *)
(***************************************************************************)

LOOKUP_MIN_SCORE == 75

LOOKUP_SUGGEST_THRESHOLD == 50

LOOKUP_MAX_RESULTS == 15

LOOKUP_MAX_SUGGESTIONS == 5

\* _normalize(s): "" for a falsy or non-str s; else stripped, lowered and
\* with every whitespace run collapsed to one space.
_normalize(s) ==
    IF ~Truthy(s) \/ ~IsStr(s) THEN <<>> ELSE Join(Split(Lower(Strip(s))))

\* A variant that does not discount.
Undiscounted(x) == x

\* x * 0.95
Times95(x) == Let1(x, LAMBDA v : Rat(v[1] * 95, v[2] * 100))

\* The exact-match rule of the scorer: the query equals the tool name.
ExactName(q, name) == q = name

\* _score_query_against_name(query, tool_name, vendor)
_score_query_against_name(query, tool_name, vendor) ==
    LET q    == _normalize(query)
        name == _normalize(tool_name)
        ven  == _normalize(vendor)
        partial_name == IF name # <<>> THEN PartialRatio(q, name) ELSE Rat(0, 1)
        ratio_name   == IF name # <<>> THEN Ratio(q, name) ELSE Rat(0, 1)
        token_name   == IF name # <<>> THEN TokenSetRatio(q, name) ELSE Rat(0, 1)
        score_name   == RMaxOf({ratio_name, partial_name, token_name})
        score_vendor == IF ven # <<>> THEN PartialRatio(q, ven) ELSE Rat(0, 1)
    IN  IF ~Truthy(query) THEN Rat(0, 1)
        ELSE IF name = <<>> /\ ven = <<>> THEN Rat(0, 1)
        ELSE IF ExactName(q, name) THEN Rat(100, 1)
        ELSE IF ven # <<>> /\ q = ven THEN Rat(95, 1)
        ELSE RMaxOf({score_name, Times95(score_vendor)})

\* rec of lookup_tool / lookup_suggestions for one row: every cell as a str
\* ("" for NaN) and the rounded score.  row_index is the row's position in
\* the snapshot, which is the identity of a record; the code's rec does not
\* carry it.
MakeRec(row, score, i) ==
    [k \in DOMAIN row \cup {"match_score", "row_index"} |->
        IF k = "match_score" THEN Round0(score)
        ELSE IF k = "row_index" THEN i
        ELSE IF IsNa(row[k]) THEN <<>> ELSE Str(row[k])]

\* "if not rec.get('Workflow Status'): rec['Workflow Status'] = 'Available'"
WithDefaultStatus(rec) ==
    IF Truthy(Get(rec, "Workflow Status")) THEN rec
    ELSE [k \in DOMAIN rec \cup {"Workflow Status"} |->
            IF k = "Workflow Status" THEN <<"A", "v", "a", "i", "l", "a", "b", "l", "e">>
            ELSE rec[k]]

\* The score of lookup_tool for one row: the scorer's, demoted to at most 40
\* when a vendor filter is given and the row's vendor does not match it.
LookupScore(query, vendor_norm, name, ven) ==
    LET score == _score_query_against_name(query, name, ven)
    IN  IF vendor_norm # <<>> /\ Truthy(ven)
           /\ RLtInt(PartialRatio(vendor_norm, _normalize(ven)), 60)
        THEN RMin(score, Rat(40, 1))
        ELSE score

\* A variant that leaves the candidates in snapshot order.
SortKeepsOrder(cands) == cands

\* candidates.sort(key=lambda x: -x[0]): stable, by descending score.  The
\* candidate at i ends behind those with a greater score and those before
\* it with an equal score.
SortDesc(cands) ==
    LET n == Len(cands)
        before(i) == {j \in 1..n : \/ RGt(cands[j][1], cands[i][1])
                                   \/ REq(cands[j][1], cands[i][1]) /\ j < i}
    IN  [k \in 1..n |-> cands[CHOOSE i \in 1..n : Cardinality(before(i)) = k - 1]]

\* A variant that cuts one candidate too early.
TakeOneLess(s, n) == SubSeq(s, 1, IF Len(s) < n - 1 THEN Len(s) ELSE n - 1)

\* candidates[:n]
Take(s, n) == SubSeq(s, 1, IF Len(s) < n THEN Len(s) ELSE n)

\* The candidates of lookup_tool from row i on: <<score, rec>> of the rows
\* whose score reaches LOOKUP_MIN_SCORE, in snapshot order.
RECURSIVE LookupCandidates(_, _, _, _)
LookupCandidates(query, vendor_norm, records, i) ==
    IF i > Len(records) THEN <<>>
    ELSE LET row   == records[i]
             name  == Str(OrEmpty(Get(row, "Name")))
             ven   == Str(OrEmpty(Get(row, "Vendor Name")))
             rest  == LookupCandidates(query, vendor_norm, records, i + 1)
         IN  Let1(LookupScore(query, vendor_norm, name, ven), LAMBDA score :
                IF RGeInt(score, LOOKUP_MIN_SCORE)
                THEN <<<<score, WithDefaultStatus(MakeRec(row, score, i))>>>> \o rest
                ELSE rest)

\* lookup_tool(tool_name, verified_stored_path, vendor_filter), given what
\* load_verified_inventory returned for the path.
lookup_tool(tool_name, inventory, vendor_filter) ==
    LET query == Strip(OrEmpty(tool_name))
    IN  IF ~Truthy(query) THEN <<>>
        ELSE IF NoInventory(inventory) THEN <<>>
        ELSE Let1(LookupCandidates(query, _normalize(vendor_filter),
                                   ToRecords(normalize_columns(inventory)), 1),
                  LAMBDA candidates :
                    Let1(Take(SortDesc(candidates), LOOKUP_MAX_RESULTS), LAMBDA top :
                        [j \in 1..Len(top) |-> top[j][2]]))

\* A variant of the band test without its upper end.
AtLeastSuggestThreshold(score) == RGeInt(score, LOOKUP_SUGGEST_THRESHOLD)

\* "LOOKUP_SUGGEST_THRESHOLD <= score < LOOKUP_MIN_SCORE"
InSuggestBand(score) ==
    RGeInt(score, LOOKUP_SUGGEST_THRESHOLD) /\ RLtInt(score, LOOKUP_MIN_SCORE)

\* The candidates of lookup_suggestions from row i on.
RECURSIVE SuggestCandidates(_, _, _)
SuggestCandidates(query, records, i) ==
    IF i > Len(records) THEN <<>>
    ELSE LET row   == records[i]
             name  == Str(OrEmpty(Get(row, "Name")))
             ven   == Str(OrEmpty(Get(row, "Vendor Name")))
             rest  == SuggestCandidates(query, records, i + 1)
         IN  Let1(_score_query_against_name(query, name, ven), LAMBDA score :
                IF InSuggestBand(score)
                THEN <<<<score, MakeRec(row, score, i)>>>> \o rest
                ELSE rest)

\* lookup_suggestions(tool_name, verified_stored_path, limit)
lookup_suggestions(tool_name, inventory, limit) ==
    LET query == Strip(OrEmpty(tool_name))
    IN  IF ~Truthy(query) THEN <<>>
        ELSE IF NoInventory(inventory) THEN <<>>
        ELSE Let1(SuggestCandidates(query, ToRecords(normalize_columns(inventory)), 1),
                  LAMBDA candidates :
                    Let1(Take(SortDesc(candidates), limit), LAMBDA top :
                        [j \in 1..Len(top) |-> top[j][2]]))

(***************************************************************************)
(* State                                                                   *)
(***************************************************************************)

VARIABLES
    inventory,   \* what load_verified_inventory returned: a dataframe or None
    call,        \* the last matcher call: [op, args, result]
    ledger,      \* table inventory_versions: the rows in insertion order
    vfiles,      \* VERSION_FOLDER: path -> the encrypted file
    up,          \* each infosec_upload request: where it stands, its locals
    cache,       \* table scan_cache: the set of its rows
    rfiles,      \* RESULTS_FOLDER: path -> result file
    sc,          \* each scan_upload request: where it stands, its locals
    scans,       \* requests to the scan handlers received so far
    runs,        \* input hash -> number of run_scan calls made for it
    served,      \* input hashes of the submissions answered with results
    removed,     \* whether a result file has been removed from the folder
    resp         \* the last response sent by a scan handler

matchVars == <<inventory, call>>

storeVars == <<ledger, vfiles, up>>

scanVars == <<cache, rfiles, sc, scans, runs, served, removed, resp>>

vars == <<inventory, call, ledger, vfiles, up,
          cache, rfiles, sc, scans, runs, served, removed, resp>>

(***************************************************************************)
(* Bounds and the inputs drawn within them                                 *)
(***************************************************************************)

\* Longest inventory built freely from InventoryRows.
MaxInventoryRows == 2

\* Longest run of one repeated inventory row (beyond LOOKUP_MAX_RESULTS).
MaxRepeat == 16

\* Most rows of a scan sheet.
MaxScanRows == 2

\* Inventory rows <<Name, Vendor Name>>: "an"/"s", "An "/"sa" (the same
\* normalized name), "a s" with a blank vendor cell, "n"/"an".
InventoryRows ==
    { <<<<"a", "n">>, <<"s">>>>,
      <<<<"A", "n", " ">>, <<"s", "a">>>>,
      <<<<"a", " ", "s">>, NaN>>,
      <<<<"n">>, <<"a", "n">>>> }

\* Scan rows <<Name, Vendor Name>>: cells are str, "" or blank (NaN).
ScanRows ==
    { <<<<"a", "n">>, <<"s">>>>,
      <<<<>>, <<>>>>,
      <<NaN, NaN>>,
      <<<<"a">>, NaN>>,
      <<<<"s">>, <<"n">>>> }

SeqsUpTo(S, n) == UNION {[1..k -> S] : k \in 0..n}

Repeat(x, n) == [i \in 1..n |-> x]

\* The row sequences of the inventories: every sequence of at most
\* MaxInventoryRows rows, and the runs of one row, alone or behind or before
\* one other row (of the same normalized name, or of a lower score for the
\* query "an"); and runs of "as"/"sa" before "ns"/"s" (scores 50 and 66.7
\* for the query "nan"), alone or before "an"/"s" (score 80).
InventoryRowSeqs ==
    SeqsUpTo(InventoryRows, MaxInventoryRows)
    \cup {pre \o Repeat(r, n) \o post :
            r \in {<<<<"a", "n">>, <<"s">>>>},
            n \in 3..MaxRepeat,
            pre \in {<<>>, <<<<<<"A", "n", " ">>, <<"s", "a">>>>>>,
                           <<<<<<"n">>, <<"a", "n">>>>>>},
            post \in {<<>>, <<<<<<"A", "n", " ">>, <<"s", "a">>>>>>}}
    \cup {Repeat(<<<<"a", "s">>, <<"s", "a">>>>, n) \o <<<<<<"n", "s">>, <<"s">>>>>> \o post :
            n \in 3..MaxRepeat,
            post \in {<<>>, <<<<<<"a", "n">>, <<"s">>>>>>}}

\* What load_verified_inventory can return: None (the file is missing,
\* corrupted or not decryptable), a sheet without rows, sheets with rows
\* (headers as typed, possibly padded).
InventoryInputs ==
    {None, DF(<<>>, <<>>)}
    \cup {DF(<<"Name", "Vendor Name">>, rows) : rows \in InventoryRowSeqs}
    \cup {DF(<<" Name", "Vendor Name ">>, rows) : rows \in SeqsUpTo(InventoryRows, 1)}

\* The validated user_df of a scan.
ScanInputs == {DF(<<"Name", "Vendor Name">>, rows) : rows \in SeqsUpTo(ScanRows, MaxScanRows)}

\* tool_name of a lookup: "", " ", "an", " An", "a", "nan", "s n"
QueryInputs ==
    { <<>>, <<" ">>, <<"a", "n">>, <<" ", "A", "n">>, <<"a">>, <<"n", "a", "n">>,
      <<"s", " ", "n">> }

\* vendor_filter of a lookup: none, "s", "n"
FilterInputs == { <<>>, <<"s">>, <<"n">> }

(***************************************************************************)
(* The server's processes and its state after init_db on a fresh data      *)
(* directory                                                               *)
(***************************************************************************)

\* Request threads serving infosec_upload and scan_upload.
Uploaders == {"u1", "u2"}

Scanners == {"s1", "s2"}

\* The threads' places in their pools.
ThreadNo(t) == IF t \in {"u1", "s1"} THEN 1 ELSE 2

\* A thread between requests.
UpIdle == [pc |-> "idle", version |-> 0, sheet |-> None]

ScIdle == [pc |-> "idle", user_df |-> None, latest_path |-> None, cached |-> None,
           result_df |-> None]

NoResponse == [handler |-> "none", kind |-> "none", token |-> None]

StoreEmpty ==
    /\ ledger = <<>>
    /\ vfiles = <<>>
    /\ up = [u \in Uploaders |-> UpIdle]

ScanEmpty ==
    /\ cache = {}
    /\ rfiles = <<>>
    /\ sc = [s \in Scanners |-> ScIdle]
    /\ scans = 0
    /\ runs = <<>>
    /\ served = {}
    /\ removed = FALSE
    /\ resp = NoResponse

(***************************************************************************)
(* The matcher called on a loaded snapshot: one call per behaviour        *)
(***************************************************************************)

NoCall == [op |-> "none", args |-> <<>>, result |-> <<>>]

MatchInit ==
    /\ StoreEmpty
    /\ ScanEmpty
    /\ inventory \in InventoryInputs
    /\ call = NoCall

\* run_scan on a scan sheet
Classify ==
    /\ call = NoCall
    /\ \E user_df \in ScanInputs :
          call' = [op |-> "classify", args |-> <<user_df>>,
                   result |-> run_scan(user_df, inventory)]
    /\ UNCHANGED <<inventory, storeVars, scanVars>>

\* lookup_tool on a query and an optional vendor filter
Lookup ==
    /\ call = NoCall
    /\ \E q \in QueryInputs, vf \in FilterInputs :
          call' = [op |-> "lookup", args |-> <<q, vf>>,
                   result |-> lookup_tool(q, inventory, vf)]
    /\ UNCHANGED <<inventory, storeVars, scanVars>>

\* lookup_suggestions on a query, with the default limit
Suggest ==
    /\ call = NoCall
    /\ \E q \in QueryInputs :
          call' = [op |-> "suggest", args |-> <<q>>,
                   result |-> lookup_suggestions(q, inventory, LOOKUP_MAX_SUGGESTIONS)]
    /\ UNCHANGED <<inventory, storeVars, scanVars>>

MatchNext == Classify \/ Lookup \/ Suggest

SpecMatch == MatchInit /\ [][MatchNext]_vars

(***************************************************************************)
(* Claims about the matcher (checked under SpecMatch)                      *)
(***************************************************************************)

\* A blank field of a scan row: the empty str, or a cell left empty.
Blank(v) == v = <<>> \/ v = NaN

\* The snapshot has rows.
NonEmptySnapshot == inventory # None /\ Len(Rows(inventory)) > 0

\* The scan sheet of a classify call and its rows' two fields.
ScanSheet == call.args[1]

ScanName(i) == Get(ToDict(Columns(ScanSheet), Rows(ScanSheet)[i]), "Name")

ScanVendor(i) == Get(ToDict(Columns(ScanSheet), Rows(ScanSheet)[i]), "Vendor Name")

\* The verdict and the score (in tenths) that a classify call gave row i.
Availability(i) == Rows(call.result)[i][Len(Columns(ScanSheet)) + 1]

MatchScore(i) == Rows(call.result)[i][Len(Columns(ScanSheet)) + 2]

\* C7: if the snapshot has no rows or could not be loaded, classify gives
\* every row RequiresReview with score 0, lookup and suggest return the empty
\* list, and nothing raises.
C7_NoSnapshotFallsBack ==
    (inventory = None \/ Len(Rows(inventory)) = 0) =>
        /\ call.op = "classify" =>
              /\ call.result # AttributeError
              /\ Len(Rows(call.result)) = Len(Rows(ScanSheet))
              /\ \A i \in 1..Len(Rows(ScanSheet)) :
                    Availability(i) = STATUS_REVIEW /\ MatchScore(i) = 0
        /\ call.op \in {"lookup", "suggest"} => call.result = <<>>

\* C7 witness: a sheet with a named tool classified without a loadable
\* snapshot.
C7_Witness ==
    /\ inventory = None
    /\ call.op = "classify"
    /\ \E i \in 1..Len(Rows(ScanSheet)) : ~Blank(ScanName(i)) /\ ~Blank(ScanVendor(i))

\* The symmetric score of the spec for a scan row against a snapshot row:
\* the mean of the two full-string ratios, a blank field compared as "".
SymmetricScore(name, vendor, rec) ==
    LET txt(v) == IF Blank(v) \/ v = None THEN <<>> ELSE Lower(v)
        t == Ratio(txt(name), txt(Get(rec, "Name")))
        v == Ratio(txt(vendor), txt(Get(rec, "Vendor Name")))
    IN  Rat(t[1] * v[2] + v[1] * t[2], 2 * t[2] * v[2])

\* The verdict the threshold policy gives the best symmetric score of row i.
PolicyVerdict(i) ==
    LET recs == ToRecords(normalize_columns(inventory))
        best == RMaxOf({SymmetricScore(ScanName(i), ScanVendor(i), recs[j]) :
                            j \in 1..Len(recs)})
    IN  IF RGeInt(best, 85) THEN "Available"
        ELSE IF RGeInt(best, 60) THEN "Requires further review"
        ELSE "Unavailable"

\* C8: against a snapshot with rows, every scan row with a non-blank field
\* gets the verdict of its best symmetric score s: Available for s >= 85,
\* RequiresReview for 60 <= s < 85, Unavailable for s < 60.
C8_ThresholdVerdict ==
    (call.op = "classify" /\ NonEmptySnapshot) =>
        \A i \in 1..Len(Rows(ScanSheet)) :
            (~Blank(ScanName(i)) \/ ~Blank(ScanVendor(i))) =>
                /\ call.result # AttributeError
                /\ Availability(i) = PolicyVerdict(i)

\* C9: against a snapshot with rows, every scan row whose two fields are both
\* blank gets RequiresReview and score 0, without failing, whatever the other
\* rows are.
C9_BlankRowReview ==
    (call.op = "classify" /\ NonEmptySnapshot) =>
        \A i \in 1..Len(Rows(ScanSheet)) :
            (Blank(ScanName(i)) /\ Blank(ScanVendor(i))) =>
                /\ call.result # AttributeError
                /\ Availability(i) = STATUS_REVIEW
                /\ MatchScore(i) = 0

\* The query and the vendor filter of a lookup call.
LookupQuery == call.args[1]

LookupFilter == call.args[2]

\* Snapshot row i has the query's normalized name.
SameNormalizedName(i) ==
    LET rec == ToRecords(normalize_columns(inventory))[i]
    IN  _normalize(Get(rec, "Name")) = _normalize(LookupQuery)

\* The lookup result holds snapshot row i with score 100.
Returned100(i) ==
    \E k \in 1..Len(call.result) :
        call.result[k]["row_index"] = i /\ call.result[k]["match_score"] = 100

\* The scorer gives snapshot row j the score 100 for the query.
Scores100(j) ==
    LET rec == ToRecords(normalize_columns(inventory))[j]
    IN  REq(_score_query_against_name(Strip(LookupQuery),
                                      Str(OrEmpty(Get(rec, "Name"))),
                                      Str(OrEmpty(Get(rec, "Vendor Name")))),
            Rat(100, 1))

\* A lookup without a vendor filter, for a non-empty query, on a snapshot.
PlainLookup ==
    /\ call.op = "lookup"
    /\ LookupFilter = <<>>
    /\ _normalize(LookupQuery) # <<>>
    /\ inventory # None

\* C10 as stated: a lookup without vendor filter returns, with score 100,
\* every snapshot row whose normalized name is the normalized query.
C10_ExactMatchReturned ==
    PlainLookup =>
        \A i \in 1..Len(Rows(inventory)) : SameNormalizedName(i) => Returned100(i)

\* C10 amended: it returns every such row that fewer than LOOKUP_MAX_RESULTS
\* rows scoring 100 precede in the snapshot.
C10_ExactMatchReturnedWithinCap ==
    PlainLookup =>
        \A i \in 1..Len(Rows(inventory)) :
            (/\ SameNormalizedName(i)
             /\ Cardinality({j \in 1..(i - 1) : Scores100(j)}) < LOOKUP_MAX_RESULTS)
                => Returned100(i)

\* C10 witness: a snapshot with more rows than the cap, and a row returned
\* with score 100 whose name differs from the query as typed.
C10_Witness ==
    /\ PlainLookup
    /\ Len(Rows(inventory)) > LOOKUP_MAX_RESULTS
    /\ \E i \in 1..Len(Rows(inventory)) :
          /\ SameNormalizedName(i)
          /\ Rows(inventory)[i][1] # LookupQuery
          /\ Returned100(i)


\* The rows of the snapshot as lookup_tool reads them.
SnapshotRecords == ToRecords(normalize_columns(inventory))

\* The score lookup_tool gives snapshot row i for the call's query and filter.
RowScore(i) ==
    LookupScore(Strip(OrEmpty(LookupQuery)), _normalize(LookupFilter),
                Str(OrEmpty(Get(SnapshotRecords[i], "Name"))),
                Str(OrEmpty(Get(SnapshotRecords[i], "Vendor Name"))))

\* The scores of all snapshot rows, by row.
RowScores == [i \in 1..Len(SnapshotRecords) |-> RowScore(i)]

\* A row of that score qualifies for the lookup result.
Qualifies(score) == RGeInt(score, LOOKUP_MIN_SCORE)

\* The snapshot row returned at place k of the result.
ResultRow(k) == call.result[k]["row_index"]

\* Under the scores given, row i ranks before row j: a greater score, or an
\* equal one and an earlier place in the snapshot.
Outranks(scores, i, j) ==
    \/ RGt(scores[i], scores[j])
    \/ REq(scores[i], scores[j]) /\ i < j

\* A lookup for a non-empty query on a snapshot with rows.
AnyLookup ==
    /\ call.op = "lookup"
    /\ Strip(OrEmpty(LookupQuery)) # <<>>
    /\ NonEmptySnapshot

\* The result is the first 15 qualifying rows in rank order.
TopRankedInOrder(scores) ==
    LET n == Len(call.result)
    IN  /\ n <= 15
        /\ \A k \in 1..n : Qualifies(scores[ResultRow(k)])
        /\ \A k \in 1..n, l \in 1..n : k < l => Outranks(scores, ResultRow(k), ResultRow(l))
        /\ \A i \in 1..Len(scores) :
              (Qualifies(scores[i]) /\ \A k \in 1..n : ResultRow(k) # i) =>
                  /\ n = 15
                  /\ \A k \in 1..n : Outranks(scores, ResultRow(k), i)

\* C11: the result of a lookup has at most 15 entries, each a qualifying row,
\* in rank order (score descending, equal scores in snapshot order), and no
\* qualifying row left out outranks a returned one: a row is left out only
\* when 15 rows that outrank it are returned.
C11_TopRankedInOrder ==
    AnyLookup => \E scores \in {RowScores} : TopRankedInOrder(scores)

\* C11 witness: 15 rows are returned, and a qualifying row of a lower score
\* that stands before all of them in the snapshot is left out.
C11_Witness ==
    /\ AnyLookup
    /\ Len(call.result) = 15
    /\ \E scores \in {RowScores} :
          \E i \in 1..Len(scores) :
              /\ Qualifies(scores[i])
              /\ \A k \in 1..15 : i < ResultRow(k) /\ RGt(scores[ResultRow(k)], scores[i])

\* A lookup with a vendor filter, for a non-empty query, on a snapshot.
FilteredLookup == AnyLookup /\ _normalize(LookupFilter) # <<>>

\* The normalized vendor of snapshot row i; a cell left empty has none.
CandidateVendor(i) == _normalize(Get(SnapshotRecords[i], "Vendor Name"))

\* The vendor-overlap ratio of row i against the filter.
VendorOverlap(i) == PartialRatio(_normalize(LookupFilter), CandidateVendor(i))

\* The score the same lookup gives row i when no filter is supplied.
UnfilteredScore(i) ==
    LookupScore(Strip(OrEmpty(LookupQuery)), <<>>,
                Str(OrEmpty(Get(SnapshotRecords[i], "Name"))),
                Str(OrEmpty(Get(SnapshotRecords[i], "Vendor Name"))))

\* The lookup result holds snapshot row i.
IsReturned(i) == \E k \in 1..Len(call.result) : ResultRow(k) = i

\* The lookup result holds snapshot row i with the given score, rounded.
ReturnedWith(i, score) ==
    \E k \in 1..Len(call.result) :
        ResultRow(k) = i /\ call.result[k]["match_score"] = Round0(score)

\* C14: in a lookup with a vendor filter, a row with a non-empty vendor
\* whose overlap with the filter is below 60 is not returned; any other row
\* is returned, with its unfiltered score, iff that score is at least 75.
C14_VendorFilterDemotes ==
    FilteredLookup =>
        \A i \in 1..Len(SnapshotRecords) :
            IF CandidateVendor(i) # <<>> /\ RLtInt(VendorOverlap(i), 60)
            THEN ~IsReturned(i)
            ELSE \E score \in {UnfilteredScore(i)} :
                    /\ IsReturned(i) <=> RGeInt(score, LOOKUP_MIN_SCORE)
                    /\ IsReturned(i) => ReturnedWith(i, score)

\* The query of a suggest call, and a suggest call for a non-empty query on
\* a snapshot with rows.
SuggestQuery == call.args[1]

AnySuggest ==
    call.op = "suggest" /\ Strip(OrEmpty(SuggestQuery)) # <<>> /\ NonEmptySnapshot

\* The scores lookup gives the snapshot rows for a query, without filter.
PlainScores(query) ==
    [i \in 1..Len(SnapshotRecords) |->
        LookupScore(Strip(OrEmpty(query)), <<>>,
                    Str(OrEmpty(Get(SnapshotRecords[i], "Name"))),
                    Str(OrEmpty(Get(SnapshotRecords[i], "Vendor Name"))))]

InBand(score) == RGeInt(score, LOOKUP_SUGGEST_THRESHOLD) /\ RLtInt(score, LOOKUP_MIN_SCORE)

\* The snapshot rows that lookup returns for the query, without filter.
LookupRows(query) ==
    LET found == lookup_tool(query, inventory, <<>>)
    IN  {found[k]["row_index"] : k \in 1..Len(found)}

\* The suggestions, scored with lookup's scorer: each lies in [50, 75) and
\* carries that score, they come by non-increasing score, there are at most
\* LOOKUP_MAX_SUGGESTIONS, and lookup returns none of them.
SuggestionsInBand(scores) ==
    /\ Len(call.result) <= LOOKUP_MAX_SUGGESTIONS
    /\ \A k \in 1..Len(call.result) :
          /\ InBand(scores[ResultRow(k)])
          /\ call.result[k]["match_score"] = Round0(scores[ResultRow(k)])
          /\ \A l \in (k + 1)..Len(call.result) :
                RGe(scores[ResultRow(k)], scores[ResultRow(l)])
    /\ \E found \in {LookupRows(SuggestQuery)} :
          \A k \in 1..Len(call.result) : ResultRow(k) \notin found

\* C15: suggest returns only rows scoring in [50, 75) by lookup's scorer, by
\* non-increasing score, at most 5, none of which lookup returns; and a
\* lookup without a filter returns only rows scoring at least 75.
C15_SuggestBand ==
    /\ AnySuggest => \E scores \in {PlainScores(SuggestQuery)} : SuggestionsInBand(scores)
    /\ (AnyLookup /\ LookupFilter = <<>>) =>
          \E scores \in {PlainScores(LookupQuery)} :
              \A k \in 1..Len(call.result) :
                  RGeInt(scores[ResultRow(k)], LOOKUP_MIN_SCORE)

\* C15 witness: five suggestions, the first of a higher score than the
\* second though it stands behind it in the snapshot, a row of the band left
\* out, and a row that lookup returns.
C15_Witness ==
    /\ AnySuggest
    /\ Len(call.result) = LOOKUP_MAX_SUGGESTIONS
    /\ \E scores \in {PlainScores(SuggestQuery)} :
          /\ ResultRow(1) > ResultRow(2)
          /\ RGt(scores[ResultRow(1)], scores[ResultRow(2)])
          /\ \E i \in 1..Len(SnapshotRecords) :
                InBand(scores[i]) /\ \A k \in 1..Len(call.result) : ResultRow(k) # i
    /\ LookupRows(SuggestQuery) # {}

(***************************************************************************)
(* infosec_upload: validate, allocate a version, write the encrypted file, *)
(* insert the ledger row                                                   *)
(***************************************************************************)

\* Uploads are taken while the next version number is at most this.
MaxVersions == 2

MAX_INVENTORY_ROWS == 10000

MAX_SCAN_ROWS == 5000

\* Sheets posted to infosec_upload: one tool, a header without rows, a sheet
\* without the Vendor Name column, and a file that is not a workbook.
UploadSheets ==
    { DF(<<"Name", "Vendor Name">>, << <<<<"a", "n">>, <<"s">>>> >>),
      DF(<<"Name", "Vendor Name">>, <<>>),
      DF(<<"Name">>, << <<<<"a", "n">>>> >>),
      None }

\* The checks validate_inventory_excel and validate_scan_excel share:
\* <<ok, df>>, df with its headers stripped.
ValidateExcel(sheet, max_rows) ==
    IF sheet = None THEN <<FALSE, None>>
    ELSE LET df == normalize_columns(sheet)
         IN  IF \E k \in 1..Len(REQUIRED_COLUMNS) :
                    REQUIRED_COLUMNS[k] \notin SeqToSet(Columns(df))
             THEN <<FALSE, None>>
             ELSE IF Len(Rows(df)) > max_rows THEN <<FALSE, None>>
             ELSE <<TRUE, df>>

validate_inventory_excel(sheet) == ValidateExcel(sheet, MAX_INVENTORY_ROWS)

validate_scan_excel(sheet) == ValidateExcel(sheet, MAX_SCAN_ROWS)

\* A path that holds no file.
NoFile == [exists |-> FALSE]

\* VERSION_FOLDER / f"verified_v{version}.xlsx"
StoredPath(version) == <<"verified_v", version, "xlsx">>

\* The file at a path of the version folder.
VersionFile(path) == IF path \in DOMAIN vfiles THEN vfiles[path] ELSE NoFile

\* SELECT COALESCE(MAX(version), 0) + 1 FROM inventory_versions
NextVersion(rows) ==
    IF Len(rows) = 0 THEN 1
    ELSE (CHOOSE v \in {rows[i].version : i \in 1..Len(rows)} :
            \A i \in 1..Len(rows) : rows[i].version <= v) + 1

\* get_latest_verified_path(): <<stored_path, version>> of a row of the
\* highest version, or <<None, 0>>.
get_latest_verified_path(rows) ==
    IF Len(rows) = 0 THEN <<None, 0>>
    ELSE LET row == rows[CHOOSE i \in 1..Len(rows) :
                            \A j \in 1..Len(rows) : rows[j].version <= rows[i].version]
         IN  <<row.stored_path, row.version>>

\* load_verified_inventory(stored_path): the sheet of a file that decrypts,
\* None for a missing or partly written one.
load_verified_inventory(path) ==
    LET f == VersionFile(path)
    IN  IF f.exists /\ f.complete THEN f.data ELSE None

\* The upload a thread is serving, told apart by thread and version: a
\* thread takes a version again only after its upload of that version failed,
\* and then writes the file anew before it inserts.
UploadId(u) == <<u, up[u].version>>

\* The sheet fails validation: the request ends with a flash message.
UploadRejected(u) ==
    /\ up[u].pc = "idle"
    /\ \E sheet \in UploadSheets : ~validate_inventory_excel(sheet)[1]
    /\ UNCHANGED <<ledger, vfiles, up, matchVars, scanVars>>

\* The sheet is valid: the version is read in a transaction of its own.
UploadAllocate(u) ==
    /\ up[u].pc = "idle"
    /\ NextVersion(ledger) <= MaxVersions
    /\ \E sheet \in UploadSheets :
          /\ validate_inventory_excel(sheet)[1]
          /\ up' = [up EXCEPT ![u] = [pc |-> "write", version |-> NextVersion(ledger),
                                      sheet |-> sheet]]
    /\ UNCHANGED <<ledger, vfiles, matchVars, scanVars>>

\* save_encrypted(path.read_bytes(), stored_path) writes the whole file.
UploadWrite(u) ==
    /\ up[u].pc = "write"
    /\ vfiles' = (StoredPath(up[u].version) :> [exists |-> TRUE, complete |-> TRUE,
                                    data |-> up[u].sheet, by |-> UploadId(u)]) @@ vfiles
    /\ up' = [up EXCEPT ![u].pc = "insert"]
    /\ UNCHANGED <<ledger, matchVars, scanVars>>

\* save_encrypted raises: before the file is opened, or while writing it,
\* which leaves a truncated file. The request ends with an error.
UploadWriteFails(u) ==
    /\ up[u].pc = "write"
    /\ \/ UNCHANGED vfiles
       \/ vfiles' = (StoredPath(up[u].version) :> [exists |-> TRUE, complete |-> FALSE,
                                       data |-> None, by |-> UploadId(u)]) @@ vfiles
    /\ up' = [up EXCEPT ![u] = UpIdle]
    /\ UNCHANGED <<ledger, matchVars, scanVars>>

\* INSERT INTO inventory_versions ... and commit.
UploadInsert(u) ==
    /\ up[u].pc = "insert"
    /\ ledger' = Append(ledger, [version |-> up[u].version,
                                 stored_path |-> StoredPath(up[u].version),
                                 row_count |-> Len(Rows(up[u].sheet)),
                                 upload |-> UploadId(u)])
    /\ up' = [up EXCEPT ![u] = UpIdle]
    /\ UNCHANGED <<vfiles, matchVars, scanVars>>

\* The insert raises (the database is locked): db() rolls back.
UploadInsertFails(u) ==
    /\ up[u].pc = "insert"
    /\ up' = [up EXCEPT ![u] = UpIdle]
    /\ UNCHANGED <<ledger, vfiles, matchVars, scanVars>>

Upload(u) ==
    \/ UploadRejected(u)
    \/ UploadAllocate(u)
    \/ UploadWrite(u)
    \/ UploadWriteFails(u)
    \/ UploadInsert(u)
    \/ UploadInsertFails(u)

StoreNext == \E u \in Uploaders : Upload(u)

\* A fresh data directory; the matcher is not called on its own.
StoreInit ==
    /\ StoreEmpty
    /\ ScanEmpty
    /\ inventory = None
    /\ call = NoCall

SpecStore == StoreInit /\ [][StoreNext]_vars


(***************************************************************************)
(* scan_upload, scan_results, scan_download and the scan cache             *)
(***************************************************************************)

\* Requests to scan_upload, scan_results and scan_download served in one
\* behaviour.
MaxScans == 2

\* Sheets posted to scan_upload: one tool, the same row with the two columns
\* in the other order, a tool with a blank vendor cell, and a sheet without
\* the Vendor Name column.
ScanSheets ==
    { DF(<<"Name", "Vendor Name">>, << <<<<"a", "n">>, <<"s">>>> >>),
      DF(<<"Vendor Name", "Name">>, << <<<<"s">>, <<"a", "n">>>> >>),
      DF(<<"Name", "Vendor Name">>, << <<<<"a">>, NaN>> >>),
      DF(<<"Name">>, << <<<<"a", "n">>>> >>) }

\* user_df.to_csv(index=False): the header line and one line per row, a
\* blank cell written as the empty field.
to_csv(df) ==
    <<Columns(df)>> \o
    [i \in 1..Len(Rows(df)) |->
        [k \in 1..Len(Rows(df)[i]) |->
            IF Rows(df)[i][k] = NaN THEN <<>> ELSE Rows(df)[i][k]]]

\* content_hash: SHA-256, a digest that tells any two of the inputs apart.
content_hash(data) == <<"sha256", data>>

InputHash(user_df) == content_hash(to_csv(user_df))

\* input_hash[:16], which tells the digests of the inputs apart as well.
FileId(input_hash) == input_hash[2]

ExcelPath(input_hash) == <<"result", FileId(input_hash), "xlsx">>

PdfPath(input_hash) == <<"result", FileId(input_hash), "pdf">>

\* The tokens a results or download request can carry: the hashes of the
\* valid scan sheets and one that was never produced.
ScanTokens ==
    {InputHash(validate_scan_excel(sheet)[2]) :
        sheet \in {sh \in ScanSheets : validate_scan_excel(sh)[1]}}
    \cup {content_hash(<<>>)}

\* The result file at a path.
ResultFile(path) == IF path \in DOMAIN rfiles THEN rfiles[path] ELSE NoFile

\* Path(...).exists()
Exists(path) == ResultFile(path).exists

\* get_cached_scan(input_hash): {"excel": .., "pdf": ..} of the row of that
\* hash, or None.
get_cached_scan(input_hash) ==
    LET rows == {r \in cache : r.input_hash = input_hash}
    IN  IF rows = {} THEN None
        ELSE LET row == CHOOSE r \in rows : TRUE
             IN  <<row.result_excel_path, row.result_pdf_path>>

CachedExcel(cached) == cached[1]

CachedPdf(cached) == cached[2]

\* A variant that takes the row for a hit when its Excel file is gone.
CacheHitWhenMissing(cached) == cached # None /\ ~Exists(CachedExcel(cached))

\* cached and Path(cached["excel"]).exists()
CacheHit(cached) == cached # None /\ Exists(CachedExcel(cached))

\* A variant that inserts without replacing.
SaveAppends(input_hash, result_excel_path, result_pdf_path) ==
    cache \cup {[input_hash |-> input_hash, result_excel_path |-> result_excel_path,
                 result_pdf_path |-> result_pdf_path]}

\* INSERT OR REPLACE INTO scan_cache: the row of that hash, if any, goes.
save_scan_cache(input_hash, result_excel_path, result_pdf_path) ==
    {r \in cache : r.input_hash # input_hash}
    \cup {[input_hash |-> input_hash, result_excel_path |-> result_excel_path,
           result_pdf_path |-> result_pdf_path]}

RunsOf(input_hash) == IF input_hash \in DOMAIN runs THEN runs[input_hash] ELSE 0

Response(handler, kind, token) == [handler |-> handler, kind |-> kind, token |-> token]

\* A request is handed to the first thread of the pool that is idle.
Accepts(s) ==
    /\ sc[s].pc = "idle"
    /\ s = CHOOSE t \in Scanners :
              /\ sc[t].pc = "idle"
              /\ \A o \in Scanners : sc[o].pc = "idle" => ThreadNo(t) <= ThreadNo(o)

\* latest_path is None or not latest_path.exists()
NoLatest ==
    LET latest_path == get_latest_verified_path(ledger)[1]
    IN  latest_path = None \/ ~VersionFile(latest_path).exists

\* No inventory has been uploaded: back to the dashboard.
ScanNoInventory(s) ==
    /\ Accepts(s)
    /\ scans < MaxScans
    /\ NoLatest
    /\ scans' = scans + 1
    /\ resp' = Response("scan_upload", "no_inventory", None)
    /\ UNCHANGED <<cache, rfiles, sc, runs, served, removed, matchVars, storeVars>>

\* The sheet fails validation: the request ends with a flash message.
ScanRejected(s) ==
    /\ Accepts(s)
    /\ scans < MaxScans
    /\ ~NoLatest
    /\ \E sheet \in ScanSheets : ~validate_scan_excel(sheet)[1]
    /\ scans' = scans + 1
    /\ resp' = Response("scan_upload", "invalid", None)
    /\ UNCHANGED <<cache, rfiles, sc, runs, served, removed, matchVars, storeVars>>

\* The sheet is valid: it is hashed and the cache row is read.
ScanLookup(s) ==
    /\ Accepts(s)
    /\ scans < MaxScans
    /\ ~NoLatest
    /\ \E sheet \in ScanSheets :
          /\ validate_scan_excel(sheet)[1]
          /\ LET user_df == validate_scan_excel(sheet)[2]
             IN  sc' = [sc EXCEPT ![s] =
                          [pc |-> "check", user_df |-> user_df,
                           latest_path |-> get_latest_verified_path(ledger)[1],
                           cached |-> get_cached_scan(InputHash(user_df)),
                           result_df |-> None]]
    /\ scans' = scans + 1
    /\ UNCHANGED <<cache, rfiles, runs, served, removed, resp, matchVars, storeVars>>

\* The row was found and its Excel file exists: redirect to the results.
ScanHit(s) ==
    /\ sc[s].pc = "check"
    /\ CacheHit(sc[s].cached)
    /\ resp' = Response("scan_upload", "cache_hit", InputHash(sc[s].user_df))
    /\ served' = served \cup {InputHash(sc[s].user_df)}
    /\ sc' = [sc EXCEPT ![s] = ScIdle]
    /\ UNCHANGED <<cache, rfiles, scans, runs, removed, matchVars, storeVars>>

\* Otherwise run_scan classifies the sheet against the latest file.
ScanRun(s) ==
    /\ sc[s].pc = "check"
    /\ ~CacheHit(sc[s].cached)
    /\ LET result_df == run_scan(sc[s].user_df, load_verified_inventory(sc[s].latest_path))
       IN  /\ result_df # AttributeError
           /\ sc' = [sc EXCEPT ![s].pc = "export", ![s].result_df = result_df]
    /\ runs' = (InputHash(sc[s].user_df) :> (RunsOf(InputHash(sc[s].user_df)) + 1)) @@ runs
    /\ UNCHANGED <<cache, rfiles, scans, served, removed, resp, matchVars, storeVars>>

\* run_scan raises: the request ends with a server error.
ScanRunRaises(s) ==
    /\ sc[s].pc = "check"
    /\ ~CacheHit(sc[s].cached)
    /\ run_scan(sc[s].user_df, load_verified_inventory(sc[s].latest_path)) = AttributeError
    /\ runs' = (InputHash(sc[s].user_df) :> (RunsOf(InputHash(sc[s].user_df)) + 1)) @@ runs
    /\ resp' = Response("scan_upload", "error", None)
    /\ sc' = [sc EXCEPT ![s] = ScIdle]
    /\ UNCHANGED <<cache, rfiles, scans, served, removed, matchVars, storeVars>>

\* export_excel and export_pdf write the two result files.
ScanExport(s) ==
    /\ sc[s].pc = "export"
    /\ LET file == [exists |-> TRUE, content |-> sc[s].result_df]
           h    == InputHash(sc[s].user_df)
       IN  rfiles' = (ExcelPath(h) :> file) @@ (PdfPath(h) :> file) @@ rfiles
    /\ sc' = [sc EXCEPT ![s].pc = "save"]
    /\ UNCHANGED <<cache, scans, runs, served, removed, resp, matchVars, storeVars>>

\* save_scan_cache, then the redirect to the results.
ScanSave(s) ==
    /\ sc[s].pc = "save"
    /\ LET h == InputHash(sc[s].user_df)
       IN  /\ cache' = save_scan_cache(h, ExcelPath(h), PdfPath(h))
           /\ served' = served \cup {h}
           /\ resp' = Response("scan_upload", "computed", h)
    /\ sc' = [sc EXCEPT ![s] = ScIdle]
    /\ UNCHANGED <<rfiles, scans, runs, removed, matchVars, storeVars>>

\* scan_results(token)
ScanResults(token) ==
    /\ scans < MaxScans
    /\ scans' = scans + 1
    /\ LET cached == get_cached_scan(token)
       IN  resp' = IF cached = None
                   THEN Response("scan_results", "not_found", token)
                   ELSE IF ~Exists(CachedExcel(cached))
                   THEN Response("scan_results", "result_file_missing", token)
                   ELSE IF Exists(CachedPdf(cached))
                   THEN Response("scan_results", "page", token)
                   ELSE Response("scan_results", "page_without_pdf", token)
    /\ UNCHANGED <<cache, rfiles, sc, runs, served, removed, matchVars, storeVars>>

\* scan_download(token, format)
ScanDownload(token, format) ==
    /\ scans < MaxScans
    /\ scans' = scans + 1
    /\ LET cached == get_cached_scan(token)
       IN  resp' = IF cached = None \/ format \notin {"excel", "pdf"}
                   THEN Response("scan_download", "not_found", token)
                   ELSE LET path == IF format = "excel" THEN CachedExcel(cached)
                                    ELSE CachedPdf(cached)
                        IN  IF ~Exists(path)
                            THEN Response("scan_download", "file_not_found", token)
                            ELSE Response("scan_download", "file", token)
    /\ UNCHANGED <<cache, rfiles, sc, runs, served, removed, matchVars, storeVars>>

\* A result file is removed from the results folder by hand or by cleanup.
RemoveResultFile(path) ==
    /\ path \in DOMAIN rfiles
    /\ rfiles[path].exists
    /\ rfiles' = [p \in DOMAIN rfiles \ {path} |-> rfiles[p]]
    /\ removed' = TRUE
    /\ UNCHANGED <<cache, sc, scans, runs, served, resp, matchVars, storeVars>>

Scan(s) ==
    \/ ScanNoInventory(s)
    \/ ScanRejected(s)
    \/ ScanLookup(s)
    \/ ScanHit(s)
    \/ ScanRun(s)
    \/ ScanRunRaises(s)
    \/ ScanExport(s)
    \/ ScanSave(s)

ScanNext ==
    \/ \E s \in Scanners : Scan(s)
    \/ \E token \in ScanTokens : ScanResults(token)
    \/ \E token \in ScanTokens, format \in {"excel", "pdf", "csv"} : ScanDownload(token, format)
    \/ \E path \in DOMAIN rfiles : RemoveResultFile(path)

\* The ledger and the version folder after the sheets of a sequence were
\* uploaded one after the other by one thread.
LedgerAfter(sheets) ==
    [v \in 1..Len(sheets) |->
        [version |-> v, stored_path |-> StoredPath(v),
         row_count |-> Len(Rows(sheets[v])), upload |-> <<"u1", v>>]]

FilesAfter(sheets) ==
    [path \in {StoredPath(v) : v \in 1..Len(sheets)} |->
        [exists |-> TRUE, complete |-> TRUE, data |-> sheets[path[2]],
         by |-> <<"u1", path[2]>>]]

\* The scan handlers start on a data directory that holds up to MaxVersions
\* uploaded inventories and no scan results; no upload runs meanwhile.
ScanInit ==
    /\ ScanEmpty
    /\ inventory = None
    /\ call = NoCall
    /\ up = [u \in Uploaders |-> UpIdle]
    /\ \E sheets \in SeqsUpTo({sh \in UploadSheets : validate_inventory_excel(sh)[1]},
                              MaxVersions) :
          /\ ledger = LedgerAfter(sheets)
          /\ vfiles = FilesAfter(sheets)

SpecScan == ScanInit /\ [][ScanNext]_vars

(***************************************************************************)
(* Claims about uploads (checked under SpecStore)                          *)
(***************************************************************************)

\* No upload is in progress.
NoUploadRunning == \A u \in Uploaders : up[u].pc = "idle"

\* The version numbers of the ledger rows.
LedgerVersions == {ledger[i].version : i \in 1..Len(ledger)}

\* The rows get_latest_verified_path may answer from: those of the highest
\* version.
LatestRows ==
    {i \in 1..Len(ledger) : ledger[i].version = get_latest_verified_path(ledger)[2]}

\* C1: once N uploads have succeeded (each inserted its row) and none is
\* running, get_latest_verified_path returns version N and the ledger holds
\* exactly the version numbers 1..N, each once.
C1_VersionsOneToN ==
    NoUploadRunning =>
        /\ get_latest_verified_path(ledger)[2] = Len(ledger)
        /\ LedgerVersions = 1..Len(ledger)

\* C5: the encrypted file a ledger row refers to is never written again: no
\* step changes the file at the stored_path of an existing row.
C5_SnapshotsNeverMutate ==
    [][\A i \in 1..Len(ledger) :
          VersionFile(ledger[i].stored_path)' = VersionFile(ledger[i].stored_path)]_vars

\* The file of the latest version is whole and was written by the upload that
\* inserted a row of that version.
LatestFileSound ==
    Len(ledger) > 0 =>
        \E i \in LatestRows :
            LET file == VersionFile(ledger[i].stored_path)
            IN  file.exists /\ file.complete /\ file.by = ledger[i].upload

\* An upload ends without inserting its row: the write or the insert failed.
UploadFails(u) ==
    /\ up[u].pc \in {"write", "insert"}
    /\ up'[u].pc = "idle"
    /\ ledger' = ledger

\* C6: in every state the file of the version get_latest_verified_path
\* returns was fully written by the upload of that version, and an upload
\* that fails at the write or at the insert leaves what
\* get_latest_verified_path returns unchanged.
C6_PersistAtomic ==
    [][/\ LatestFileSound'
       /\ \A u \in Uploaders :
             UploadFails(u) =>
                 get_latest_verified_path(ledger)' = get_latest_verified_path(ledger)]_vars

(***************************************************************************)
(* Claims about the scan cache (checked under SpecScan)                    *)
(***************************************************************************)

\* The hash of the sheet a scan request is working on.
HashOf(s) == InputHash(sc[s].user_df)

\* The request of thread s reads the cache row for its sheet in this step.
LooksUp(s) == sc[s].pc = "idle" /\ sc'[s].pc = "check"

\* The request of thread s decides between hit and miss in this step.
Decides(s) == sc[s].pc = "check" /\ sc'[s].pc # "check"

\* The result files an earlier submission of the sheet of s produced are
\* both on disk.
ResultsOnDisk(s) == Exists(ExcelPath(HashOf(s))) /\ Exists(PdfPath(HashOf(s)))

\* C2: a submission that arrives after a submission of the same hash was
\* answered with results reads the row with the result locations of that
\* submission; a submission that read such a row, and finds the result files
\* on disk when it decides, is redirected to them and run_scan is not called.
\* run_scan is only ever called by a request that has read the cache before.
C2_CacheHitShortCircuits ==
    [][/\ \A s \in Scanners :
             /\ (LooksUp(s) /\ InputHash(sc'[s].user_df) \in served) =>
                   sc'[s].cached = <<ExcelPath(InputHash(sc'[s].user_df)),
                                     PdfPath(InputHash(sc'[s].user_df))>>
             /\ (Decides(s) /\ sc[s].cached # None /\ ResultsOnDisk(s)) =>
                   /\ resp' = Response("scan_upload", "cache_hit", HashOf(s))
                   /\ sc'[s] = ScIdle
                   /\ runs' = runs
                   /\ rfiles' = rfiles
       /\ runs' # runs =>
             \E s \in Scanners :
                 /\ Decides(s)
                 /\ \A h \in DOMAIN runs' :
                       (h \notin DOMAIN runs \/ runs'[h] # runs[h]) => h = HashOf(s)]_vars

\* C2 witness: a submission was answered from the cache, its sheet having
\* been classified once.
C2_Witness ==
    /\ resp.handler = "scan_upload"
    /\ resp.kind = "cache_hit"
    /\ RunsOf(resp.token) = 1
    /\ Exists(ExcelPath(resp.token))
    /\ Exists(PdfPath(resp.token))

\* C3: while no result file is removed, run_scan is called at most once for
\* any input hash.
C3_AtMostOnce == ~removed => \A h \in DOMAIN runs : runs[h] <= 1

\* The request of thread s is answered as a cache hit in this step.
ServedAsHit(s) == Decides(s) /\ sc'[s].pc = "idle" /\ runs' = runs

\* The answers that tell the user a result file is missing.
MissingFileAnswers == {"result_file_missing", "file_not_found"}

\* C4: a submission is answered as a cache hit only if both files of the
\* cache row exist (otherwise it is recomputed), and no request is answered
\* with a missing result file or a message that a file is missing.
C4_HitOnlyIfFilesExist ==
    [][/\ \A s \in Scanners :
             ServedAsHit(s) =>
                 /\ Exists(CachedExcel(sc[s].cached))
                 /\ Exists(CachedPdf(sc[s].cached))
       /\ scans' # scans => resp'.kind \notin MissingFileAnswers]_vars

\* The sheets scan_upload accepts, as validate_scan_excel returns them.
ValidScanSheets ==
    {validate_scan_excel(sheet)[2] : sheet \in {sh \in ScanSheets : validate_scan_excel(sh)[1]}}

\* Two sheets hold the same rows, whatever the order of their columns.
SameRowsAnyColumnOrder(df1, df2) == ToRecords(df1) = ToRecords(df2)

\* C12: a submission that arrives after a sheet with the same rows, in
\* whatever column order, was answered with results has the same input hash
\* and finds the cache row, so that run_scan is called once for the pair.
C12_ColumnOrderSameHash ==
    [][\A s \in Scanners :
          LooksUp(s) =>
              \A df \in ValidScanSheets :
                  (SameRowsAnyColumnOrder(df, sc'[s].user_df) /\ InputHash(df) \in served) =>
                      /\ InputHash(sc'[s].user_df) = InputHash(df)
                      /\ sc'[s].cached # None]_vars

(***************************************************************************)
(* save_scan_cache and get_cached_scan called with any hash and locations  *)
(***************************************************************************)

\* The hashes and the result paths the two functions are called with.
CacheHashes == {content_hash(<<"h1">>), content_hash(<<"h2">>)}

CachePaths == {<<"result", "a", "xlsx">>, <<"result", "a", "pdf">>, <<"result", "b", "pdf">>}

\* save_scan_cache(input_hash, excel, pdf), one committed statement.  The
\* call records what get_cached_scan gave for the hash just before.
CachePut ==
    /\ \E h \in CacheHashes, excel \in CachePaths, pdf \in CachePaths :
          /\ cache' = save_scan_cache(h, excel, pdf)
          /\ call' = [op |-> "put", args |-> <<h, <<excel, pdf>>>>,
                      result |-> get_cached_scan(h)]
    /\ UNCHANGED <<inventory, storeVars, rfiles, sc, scans, runs, served, removed, resp>>

\* get_cached_scan(input_hash)
CacheGet ==
    /\ \E h \in CacheHashes :
          call' = [op |-> "get", args |-> <<h>>, result |-> get_cached_scan(h)]
    /\ UNCHANGED <<inventory, storeVars, scanVars>>

CacheNext == CachePut \/ CacheGet

\* The scan_cache table as init_db creates it.
CacheInit ==
    /\ StoreEmpty
    /\ ScanEmpty
    /\ inventory = None
    /\ call = NoCall

SpecCache == CacheInit /\ [][CacheNext]_vars

(***************************************************************************)
(* Claims about the cache table (checked under SpecCache)                  *)
(***************************************************************************)

\* The table holds at most one row per input hash.
OneRowPerHash == \A r1 \in cache, r2 \in cache : r1.input_hash = r2.input_hash => r1 = r2

\* C13: the cache holds at most one row per hash; right after a put(h, L)
\* get(h) gives L and get of every other hash gives what it gave before; a
\* get changes nothing and gives what the last put for its hash stored; and
\* get(h) gives None until a put for h.
C13_CacheUpsert ==
    [][/\ OneRowPerHash'
       /\ \A h \in CacheHashes :
             /\ (call'.op = "put" /\ call'.args[1] = h) =>
                   /\ get_cached_scan(h)' = call'.args[2]
                   /\ \A g \in CacheHashes \ {h} :
                         get_cached_scan(g)' = get_cached_scan(g)
             /\ (call'.op = "get" /\ call'.args[1] = h) =>
                   /\ cache' = cache
                   /\ call'.result = get_cached_scan(h)
             /\ (get_cached_scan(h) = None /\ get_cached_scan(h)' # None) =>
                   call'.op = "put" /\ call'.args[1] = h]_vars

\* C13 witness: a put has replaced other locations of its hash while the
\* other hash has its row, and the table holds the new locations.
C13_Witness ==
    /\ call.op = "put"
    /\ call.result # None
    /\ call.result # call.args[2]
    /\ get_cached_scan(call.args[1]) = call.args[2]
    /\ \E g \in CacheHashes \ {call.args[1]} : get_cached_scan(g) # None

(***************************************************************************)
(* _score_query_against_name called with any query, name and vendor        *)
(***************************************************************************)

\* tool_name and vendor of a candidate: "", " ", and names and vendors of
\* the inventory rows, as typed.
ScoreNames ==
    { <<>>, <<" ">>, <<"a", "n">>, <<"A", "n", " ">>, <<"a", " ", "s">>, <<"n">>,
      <<"s", " ", "n">> }

ScoreVendors == { <<>>, <<"s">>, <<"s", "a">>, <<"a", "n">>, <<" ", "S">> }

\* _score_query_against_name(query, tool_name, vendor)
Score ==
    /\ \E query \in QueryInputs, tool_name \in ScoreNames, vendor \in ScoreVendors :
          call' = [op |-> "score", args |-> <<query, tool_name, vendor>>,
                   result |-> _score_query_against_name(query, tool_name, vendor)]
    /\ UNCHANGED <<inventory, storeVars, scanVars>>

ScoreNext == Score

ScoreInit ==
    /\ StoreEmpty
    /\ ScanEmpty
    /\ inventory = None
    /\ call = NoCall

SpecScore == ScoreInit /\ [][ScoreNext]_vars

(***************************************************************************)
(* Claims about the scorer (checked under SpecScore)                       *)
(***************************************************************************)

\* The three normalized arguments of a scorer call.
ScoredQuery == _normalize(call.args[1])

ScoredName == _normalize(call.args[2])

ScoredVendor == _normalize(call.args[3])

\* The maximum of the three name ratios, and the vendor ratio (0 when the
\* vendor is empty).
ScoreName ==
    RMaxOf({Ratio(ScoredQuery, ScoredName), PartialRatio(ScoredQuery, ScoredName),
            TokenSetRatio(ScoredQuery, ScoredName)})

ScoreVendor ==
    IF ScoredVendor = <<>> THEN Rat(0, 1) ELSE PartialRatio(ScoredQuery, ScoredVendor)

\* The score decided in the stated order.
ScoreInOrder ==
    IF ScoredName = <<>> /\ ScoredVendor = <<>> THEN Rat(0, 1)
    ELSE IF ScoredQuery = ScoredName THEN Rat(100, 1)
    ELSE IF ScoredVendor # <<>> /\ ScoredQuery = ScoredVendor THEN Rat(95, 1)
    ELSE RMax(ScoreName, Rat(95 * ScoreVendor[1], 100 * ScoreVendor[2]))

ScoreInRange == RGeInt(call.result, 0) /\ ~RGt(call.result, Rat(100, 1))

\* C16 as stated: the scorer gives, for every query, name and vendor, a
\* value in [0, 100] that is 0 if the normalized name and vendor are both
\* empty, else 100 if the normalized query is the normalized name, else 95
\* if it is the non-empty normalized vendor, else the greater of the best
\* name ratio and 0.95 times the vendor ratio.
C16_ScoreInOrder ==
    call.op = "score" => ScoreInRange /\ REq(call.result, ScoreInOrder)

\* C16 amended: the same for every non-empty query; the empty query scores 0.
C16_ScoreInOrderUnlessNoQuery ==
    call.op = "score" =>
        /\ ScoreInRange
        /\ IF call.args[1] = <<>> THEN REq(call.result, Rat(0, 1))
           ELSE REq(call.result, ScoreInOrder)

\* C16 witness: no rule of exact match applies and the discounted vendor
\* ratio exceeds every name ratio and is the score.
C16_Witness ==
    /\ call.op = "score"
    /\ call.args[1] # <<>>
    /\ ScoredQuery # ScoredName
    /\ ScoredQuery # ScoredVendor
    /\ RGt(call.result, ScoreName)
    /\ RGt(ScoreVendor, call.result)

(***************************************************************************)
(* Uploads and scans on one server, from a fresh data directory            *)
(***************************************************************************)

\* One thread uploads inventories while the scan threads serve.
FreshNext == Upload("u1") \/ ScanNext

FreshInit ==
    /\ StoreEmpty
    /\ ScanEmpty
    /\ inventory = None
    /\ call = NoCall

SpecFresh == FreshInit /\ [][FreshNext]_vars

(***************************************************************************)
(* Claims about scans across uploads (checked under SpecFresh)             *)
(***************************************************************************)

\* Thread s answers its submission from the cache in this step.
AnswersFromCache(s) ==
    sc[s].pc = "check" /\ CacheHit(sc[s].cached) /\ sc'[s].pc = "idle"

\* What run_scan gives for the submission of s against the inventory that
\* the handler found to be the latest.
VerdictsAgainstLatest(s) ==
    run_scan(sc[s].user_df, load_verified_inventory(sc[s].latest_path))

\* C17: when scan_upload answers a submission from the cache, the result
\* file it serves holds the verdicts of the submission against the inventory
\* version that is the latest for that request.
C17_HitServesLatest ==
    [][\A s \in Scanners :
          (AnswersFromCache(s) /\ Exists(CachedExcel(sc[s].cached))) =>
              ResultFile(CachedExcel(sc[s].cached)).content = VerdictsAgainstLatest(s)]_vars

====
